---- MODULE Spec2Model ----
(***************************************************************************)
(* Model of the CES exhibitor crawler (src/ai_studio_code.py).             *)
(*                                                                         *)
(* Three specifications share the module:                                  *)
(*   Spec       main(): keyword -> bootstrap_session -> fetch_exhibitors   *)
(*              -> hit_to_row per hit -> write_csv, against a server that  *)
(*              is either well-behaved or answers arbitrarily.             *)
(*   SpecStrip  strip_randomstring applied to a bounded set of strings.    *)
(*   SpecRow    hit_to_row applied to a bounded set of hit records.        *)
(*                                                                         *)
(* Python strings are sequences of one-character strings, so that          *)
(* str.replace, str.strip and str.join are computed character by           *)
(* character.  Python values are tagged records (none/bool/int/str/list/   *)
(* dict) so that a key can be absent, present with None, or present with   *)
(* a value.                                                                *)
(***************************************************************************)
EXTENDS Integers, Sequences, FiniteSets, TLC

VARIABLES pc, arg, ret,
          args, keyword, output_path, session, server,
          requests, resp, hits, start, total, batch, pages,
          rows, output, error

pure == <<arg, ret>>
loop == <<requests, resp, hits, start, total, batch, pages>>
pipe == <<args, keyword, output_path, session, server, rows, output, error>>
vars == <<pc, arg, ret, args, keyword, output_path, session, server,
          requests, resp, hits, start, total, batch, pages,
          rows, output, error>>

----------------------------------------------------------------------------
(* Bounds *)

MaxPieces == 4
MaxList == 2
MaxN == 3
MaxPageSize == 2
MaxBatch == 2
MaxFound == 3
MaxHits == 4
MaxRequests == 4

----------------------------------------------------------------------------
(* Python values *)

None_ == [t |-> "none"]
Bool(b) == [t |-> "bool", v |-> b]
PyInt(n) == [t |-> "int", v |-> n]
Str(s) == [t |-> "str", v |-> s]
List(l) == [t |-> "list", v |-> l]
Dict(d) == [t |-> "dict", v |-> d]

EmptyDict == [k \in {} |-> None_]

\* bool(x): None, False, 0, "", [] and {} are falsy.
Truthy(x) ==
  CASE x.t = "none" -> FALSE
    [] x.t = "bool" -> x.v
    [] x.t = "int" -> x.v # 0
    [] x.t = "str" -> Len(x.v) > 0
    [] x.t = "list" -> Len(x.v) > 0
    [] x.t = "dict" -> DOMAIN x.v # {}

\* d.get(k, default) on the mapping d.
Get(d, k, default) == IF k \in DOMAIN d THEN d[k] ELSE default

\* Python's `a or b`.
Or(a, b) == IF Truthy(a) THEN a ELSE b

----------------------------------------------------------------------------
(* Strings *)

randomstring == <<"r","a","n","d","o","m","s","t","r","i","n","g">>
Separator == <<";"," ">>
Whitespace == {" ", "\t", "\n"}

\* s.replace(old, ""): scan left to right, drop each non-overlapping match.
RECURSIVE Replace(_, _)
Replace(s, old) ==
  IF Len(s) < Len(old) THEN s
  ELSE IF SubSeq(s, 1, Len(old)) = old
       THEN Replace(SubSeq(s, Len(old) + 1, Len(s)), old)
       ELSE <<Head(s)>> \o Replace(Tail(s), old)

RECURSIVE LStrip(_)
LStrip(s) == IF s # <<>> /\ Head(s) \in Whitespace THEN LStrip(Tail(s)) ELSE s

RECURSIVE RStrip(_)
RStrip(s) ==
  IF s # <<>> /\ s[Len(s)] \in Whitespace
  THEN RStrip(SubSeq(s, 1, Len(s) - 1)) ELSE s

\* s.strip()
Strip(s) == RStrip(LStrip(s))

strip_randomstring(value) == Strip(Replace(value, randomstring))

\* sep.join(parts) for a sequence of strings.
RECURSIVE Join(_, _)
Join(parts, sep) ==
  IF parts = <<>> THEN <<>>
  ELSE IF Len(parts) = 1 THEN parts[1]
  ELSE parts[1] \o sep \o Join(Tail(parts), sep)

Contains(s, sub) ==
  \E i \in 1..(Len(s) - Len(sub) + 1) : SubSeq(s, i, i + Len(sub) - 1) = sub

----------------------------------------------------------------------------
(* hit_to_row *)

fieldnames ==
  <<"exhibitor_id", "name", "booths", "hall", "description", "seeking_funding",
    "funding_amount", "investment_stage", "revenue", "logo_file", "featured",
    "tags">>

Raise(exc) == [raised |-> TRUE, exc |-> exc]
Return(v) == [raised |-> FALSE, value |-> v]

\* "; ".join(xs) over Python values: TypeError unless every item is a str.
JoinValues(xs) ==
  IF \A i \in 1..Len(xs) : xs[i].t = "str"
  THEN Return(Join([i \in 1..Len(xs) |-> xs[i].v], Separator))
  ELSE Raise("TypeError")

\* the generator of line 89: entries filtered by `if b` BEFORE cleanup.
BoothsGenerator(booths_raw) ==
  LET kept == SelectSeq(booths_raw, Truthy)
  IN  [i \in 1..Len(kept) |-> Str(strip_randomstring(kept[i].v))]

\* swapped fallback order
TagsSwapped(fields) ==
  Or(Or(Get(fields, "tags", None_), Get(fields, "exhtags_la", None_)), List(<<>>))

\* line 91: fields.get("exhtags_la") or fields.get("tags") or []
Tags(fields) ==
  Or(Or(Get(fields, "exhtags_la", None_), Get(fields, "tags", None_)), List(<<>>))

hit_to_row(hit) ==
  LET fieldsV == Get(hit, "fields", Dict(EmptyDict))
  IN  IF fieldsV.t # "dict" THEN Raise("AttributeError")
      ELSE
        LET fields == fieldsV.v
            booths_raw == Or(Get(fields, "boothsdisplay_la", None_), List(<<>>))
            booths == JoinValues(BoothsGenerator(booths_raw.v))
            halls == JoinValues(Or(Get(fields, "hallid_la", None_), List(<<>>)).v)
            tags == JoinValues(Tags(fields).v)
        IN  IF booths.raised THEN booths
            ELSE IF halls.raised THEN halls
            ELSE IF tags.raised THEN tags
            ELSE Return(
              [exhibitor_id |-> Get(fields, "exhid_l", Str(<<>>)),
               name |-> Get(fields, "exhname_t", Str(<<>>)),
               booths |-> Str(booths.value),
               hall |-> Str(halls.value),
               description |-> Get(fields, "exhdesc_t", Str(<<>>)),
               seeking_funding |-> Get(fields, "seekfunding_t", Str(<<>>)),
               funding_amount |-> Get(fields, "fundingamount_t", Str(<<>>)),
               investment_stage |-> Get(fields, "investmentstage_l", Str(<<>>)),
               revenue |-> Get(fields, "revenue_t", Str(<<>>)),
               logo_file |-> Get(fields, "exhlogo_t", Str(<<>>)),
               featured |-> Get(fields, "exhfeatured_t", Str(<<>>)),
               tags |-> Str(tags.value)])

----------------------------------------------------------------------------
(* Inputs of the pure-function specifications *)

Absent == [t |-> "absent"]

\* the mapping that holds exactly the keys f does not mark absent
DictOf(f) == [k \in {j \in DOMAIN f : f[j] # Absent} |-> f[k]]

SeqsUpTo(S, n) == UNION {[1..k -> S] : k \in 0..n}

Pieces == {<<"r","a","n","d","o","m">>, <<"s","t","r","i","n","g">>,
           <<" ">>, <<"\t">>, <<"A">>}

RECURSIVE Concats(_)
Concats(n) ==
  IF n = 0 THEN {<<>>}
  ELSE LET prev == Concats(n - 1)
       IN  prev \cup {p \o q : p \in Pieces, q \in prev}

StripInputs == Concats(MaxPieces)

ScalarKeys ==
  {"exhid_l", "exhname_t", "exhdesc_t", "seekfunding_t", "fundingamount_t",
   "investmentstage_l", "revenue_t", "exhlogo_t", "exhfeatured_t"}

ScalarVals == {Absent, None_, Str(<<"x">>)}

BoothEntries ==
  {None_, Str(<<>>), Str(<<" ">>), Str(randomstring),
   Str(<<"H","a","l","l"," ","A","-","1","2","3">> \o randomstring),
   Str(<<" "," ","B","-","4","5"," "," ">>)}

HallEntries == {None_, Str(<<"N">>), Str(<<" ","W"," ">>)}
TagEntries == {None_, Str(<<"x">>), Str(<<"y">>)}

ListVals(entries) == {Absent, None_} \cup {List(l) : l \in SeqsUpTo(entries, MaxList)}

FieldsInputs ==
  {DictOf(f) : f \in [ScalarKeys -> ScalarVals]}
  \cup {DictOf(f) : f \in [{"boothsdisplay_la"} -> ListVals(BoothEntries)]}
  \cup {DictOf(f) : f \in [{"hallid_la"} -> ListVals(HallEntries)]}
  \cup {DictOf(f) : f \in [{"exhtags_la", "tags"} -> ListVals(TagEntries)]}

RowInputs ==
  {EmptyDict, [k \in {"fields"} |-> None_]}
  \cup {[k \in {"fields"} |-> Dict(d)] : d \in FieldsInputs}

----------------------------------------------------------------------------
(* State before main() runs; the pure-function specifications keep it. *)

NoResponse == [status |-> "none"]

InitPipe ==
  /\ args = None_
  /\ keyword = None_
  /\ output_path = <<>>
  /\ session = [created |-> FALSE, primed |-> 0]
  /\ requests = <<>>
  /\ resp = NoResponse
  /\ hits = <<>>
  /\ start = 0
  /\ total = None_
  /\ batch = <<>>
  /\ pages = <<>>
  /\ rows = <<>>
  /\ output = [opened |-> FALSE, path |-> <<>>, lines |-> <<>>]
  /\ error = "none"

NoServer == [wellBehaved |-> FALSE, data |-> <<>>]

----------------------------------------------------------------------------
(* The remote search API *)

HitA ==
  [k \in {"fields"} |->
    Dict([exhid_l |-> Str(<<"1">>), exhname_t |-> Str(<<"A">>),
          boothsdisplay_la |-> List(<<Str(<<"A","1">> \o randomstring)>>)])]

HitB ==
  [k \in {"fields"} |->
    Dict([exhname_t |-> Str(<<"B">>), tags |-> List(<<Str(<<"x">>)>>)])]

HitNullFields == [k \in {"fields"} |-> None_]

ServerHits == {HitA, HitB, HitNullFields}

Min(a, b) == IF a < b THEN a ELSE b
Max(a, b) == IF a > b THEN a ELSE b

\* the JSON body: SUCCESS and DATA may each be missing; DATA stands for
\* payload["DATA"]["results"][show], whose "found" and "hit" may be missing.
Payload(success, data) == DictOf([SUCCESS |-> success, DATA |-> data])
Result(found, hit) == Dict(DictOf([found |-> found, hit |-> hit]))

\* a server that reports found = N and serves min(S, N - o) records at offset o
WellBehavedResponse(data, o, S) ==
  [status |-> "ok",
   payload |-> Payload(Bool(TRUE),
                       Result(PyInt(Len(data)),
                              List(SubSeq(data, o + 1, o + Min(S, Len(data) - o)))))]

\* any response at all: transport failure, HTTP error status, or a JSON body
ArbitraryResponses(room) ==
  {[status |-> "timeout"], [status |-> "http_error"]}
  \cup {[status |-> "ok", payload |-> Payload(s, d)] :
          s \in {Absent, Bool(TRUE), Bool(FALSE)},
          d \in {Absent} \cup
                {Result(f, h) :
                   f \in {Absent} \cup {PyInt(n) : n \in 0..MaxFound},
                   h \in {Absent} \cup
                         {List(l) : l \in SeqsUpTo(ServerHits, Min(MaxBatch, room))}}}

ServerResponses(o, S) ==
  IF server.wellBehaved THEN {WellBehavedResponse(server.data, o, S)}
  ELSE ArbitraryResponses(MaxHits - Len(hits))

Servers ==
  {[wellBehaved |-> TRUE, data |-> d] : d \in SeqsUpTo(ServerHits, MaxN)}
  \cup {NoServer}

----------------------------------------------------------------------------
(* Spec: main() *)

ArgKeywords == {None_, Str(<<>>), Str(<<"a","i">>)}
ArgOutputs == {None_, Str(<<"o",".","c","s","v">>)}
TypedInputs == {<<>>, <<" ">>, <<" ","a","i"," ">>}

\* f"exhibitors_{keyword}.csv"
DefaultOutput(k) ==
  <<"e","x","h","i","b","i","t","o","r","s","_">> \o k \o <<".","c","s","v">>

\* checks for None only
KeywordIsNone(k) == k = None_

\* line 157: `not keyword`
KeywordMissing(k) == ~Truthy(k)

\* raises only on an explicit false flag
SearchSucceededUnlessFalse(payload) == Get(payload, "SUCCESS", None_) # Bool(FALSE)

\* line 65: payload.get("SUCCESS") is truthy
SearchSucceeded(payload) == Truthy(Get(payload, "SUCCESS", None_))

\* advances by the configured page size
NextStartByPageSize(start_, batch_, page_size) == start_ + page_size

\* line 73: start += len(batch)
NextStart(start_, batch_, page_size) == start_ + Len(batch_)

\* comparison inverted
LoopExitsInverted(start_, total_, batch_) == start_ <= total_ \/ batch_ = <<>>

\* strict comparison
LoopExitsStrict(start_, total_, batch_) == start_ > total_ \/ batch_ = <<>>

\* empty-page guard dropped
LoopExitsNoEmptyGuard(start_, total_, batch_) == start_ >= total_

\* line 74: start >= total or not batch
LoopExits(start_, total_, batch_) == start_ >= total_ \/ batch_ = <<>>

Init ==
  /\ pc = "main"
  /\ arg = None_
  /\ ret = None_
  /\ server \in Servers
  /\ InitPipe

\* lines 132-160: parse the arguments, prompt when --keyword is falsy, reject
\* an empty keyword, derive the output path
ParseArgs ==
  /\ pc = "main"
  /\ \E kw \in ArgKeywords, out \in ArgOutputs, ps \in 1..MaxPageSize,
        typed \in TypedInputs :
       LET k == IF Truthy(kw) THEN kw ELSE Str(Strip(typed))
       IN  /\ args' = [keyword |-> kw, output |-> out, show |-> "exhibitor",
                       page_size |-> ps]
           /\ keyword' = k
           /\ IF KeywordMissing(k)
              THEN /\ pc' = "aborted"
                   /\ error' = "SystemExit"
                   /\ UNCHANGED output_path
              ELSE /\ pc' = "bootstrap"
                   /\ output_path' = Or(out, Str(DefaultOutput(k.v))).v
                   /\ UNCHANGED error
  /\ UNCHANGED <<pure, loop, session, server, rows, output>>

\* lines 26-32 and 162: one priming GET, which may fail in transport
BootstrapSession ==
  /\ pc = "bootstrap"
  /\ session' = [created |-> TRUE, primed |-> session.primed + 1]
  /\ \E ok \in BOOLEAN :
       IF ok THEN pc' = "fetch" /\ UNCHANGED error
       ELSE pc' = "aborted" /\ error' = "ConnectionError"
  /\ UNCHANGED <<pure, loop, args, keyword, output_path, server, rows, output>>

\* lines 47-77: one iteration of the pagination loop
FetchPage ==
  /\ pc = "fetch"
  /\ Len(requests) < MaxRequests
  /\ \E r \in ServerResponses(start, args.page_size) :
       /\ requests' = Append(requests,
                             [search |-> keyword.v, searchsize |-> args.page_size,
                              start |-> start, show |-> args.show])
       /\ resp' = r
       /\ IF r.status # "ok"
          THEN /\ pc' = "aborted"
               /\ error' = IF r.status = "timeout" THEN "ConnectionError" ELSE "HTTPError"
               /\ UNCHANGED <<hits, start, total, batch, pages>>
          ELSE IF ~SearchSucceeded(r.payload)
          THEN /\ pc' = "aborted"
               /\ error' = "RuntimeError"
               /\ UNCHANGED <<hits, start, total, batch, pages>>
          ELSE IF "DATA" \notin DOMAIN r.payload
          THEN /\ pc' = "aborted"
               /\ error' = "KeyError"
               /\ UNCHANGED <<hits, start, total, batch, pages>>
          ELSE LET result == r.payload["DATA"].v
                   b == Get(result, "hit", List(<<>>)).v
                   h == hits \o b
                   t == Get(result, "found", PyInt(Len(h))).v
                   s == NextStart(start, b, args.page_size)
               IN  /\ batch' = b
                   /\ hits' = h
                   /\ total' = t
                   /\ start' = s
                   /\ pages' = Append(pages, b)
                   /\ pc' = IF LoopExits(s, t, b) THEN "flatten" ELSE "fetch"
                   /\ UNCHANGED error
  /\ UNCHANGED <<pure, args, keyword, output_path, session, server, rows, output>>

\* line 169: rows = [hit_to_row(hit) for hit in hits]
Flatten ==
  /\ pc = "flatten"
  /\ LET results == [i \in 1..Len(hits) |-> hit_to_row(hits[i])]
         failed == {i \in 1..Len(hits) : results[i].raised}
     IN  IF failed # {}
         THEN /\ pc' = "aborted"
              /\ error' = results[CHOOSE i \in failed : \A j \in failed : i <= j].exc
              /\ UNCHANGED rows
         ELSE /\ pc' = "write"
              /\ rows' = [i \in 1..Len(hits) |-> results[i].value]
              /\ UNCHANGED error
  /\ UNCHANGED <<pure, loop, args, keyword, output_path, session, server, output>>

\* lines 109-128 and 170: open the file, write the header and the rows
WriteCsv ==
  /\ pc = "write"
  /\ \E canOpen \in BOOLEAN :
       IF canOpen
       THEN /\ output' = [opened |-> TRUE, path |-> output_path,
                          lines |-> <<fieldnames>> \o rows]
            /\ pc' = "print"
            /\ UNCHANGED error
       ELSE /\ pc' = "aborted"
            /\ error' = "OSError"
            /\ UNCHANGED output
  /\ UNCHANGED <<pure, loop, args, keyword, output_path, session, server, rows>>

\* line 171
PrintSummary ==
  /\ pc = "print"
  /\ pc' = "done"
  /\ UNCHANGED <<pure, loop, pipe>>

Next ==
  \/ ParseArgs
  \/ BootstrapSession
  \/ FetchPage
  \/ Flatten
  \/ WriteCsv
  \/ PrintSummary

Spec == Init /\ [][Next]_vars

----------------------------------------------------------------------------
(* Claims about the pagination loop and main() *)

\* fetch_exhibitors has returned its list to main()
FetchReturned == pc \in {"flatten", "write", "print", "done"}

RECURSIVE ConcatAll(_)
ConcatAll(ps) == IF ps = <<>> THEN <<>> ELSE Head(ps) \o ConcatAll(Tail(ps))

Ceil(n, s) == (n + s - 1) \div s

\* C1 as stated: whenever fetch_exhibitors returns normally, the number of
\* accumulated records equals the total reported by the last fetched page, or
\* the last fetched page contained zero records.
C1_LengthEqualsFoundOrEmptyPage ==
  FetchReturned => (Len(hits) = total \/ batch = <<>>)

\* C1 amended: whenever fetch_exhibitors returns normally, the number of
\* accumulated records is at least the total reported by the last fetched page,
\* or the last fetched page contained zero records.
C1_LengthReachesFoundOrEmptyPage ==
  FetchReturned => (Len(hits) >= total \/ batch = <<>>)

\* a server that reports fewer records than it has delivered
C1_Witness ==
  /\ pc = "flatten"
  /\ batch # <<>>
  /\ Len(hits) > total
  /\ Len(requests) = 2

\* C2 as stated: against a well-behaved server with N records and page size S,
\* fetch_exhibitors returns exactly the N records in server order and issues
\* exactly ceil(N / S) search requests.
C2_AllRecordsInCeilRequests ==
  (FetchReturned /\ server.wellBehaved) =>
    /\ hits = server.data
    /\ Len(requests) = Ceil(Len(server.data), args.page_size)

\* C2 amended: against a well-behaved server fetch_exhibitors returns exactly
\* the N records in server order and issues exactly max(1, ceil(N / S)) search
\* requests: one request is always sent, also when N = 0.
C2_AllRecordsInAtLeastOneRequest ==
  (FetchReturned /\ server.wellBehaved) =>
    /\ hits = server.data
    /\ Len(requests) = Max(1, Ceil(Len(server.data), args.page_size))

\* found = 3 served as pages of 2 then 1
C2_Witness ==
  /\ pc = "flatten"
  /\ server.wellBehaved
  /\ Len(server.data) = 3
  /\ args.page_size = 2
  /\ pages = <<SubSeq(server.data, 1, 2), SubSeq(server.data, 3, 3)>>
  /\ Len(requests) = 2

\* the last search response carried a false or missing success flag
SearchFailed ==
  /\ resp.status = "ok"
  /\ \/ "SUCCESS" \notin DOMAIN resp.payload
     \/ resp.payload["SUCCESS"] = Bool(FALSE)

\* C3: a search response with a false or missing success flag aborts the run
\* at that request: no further request is issued, the accumulated records are
\* not returned or flattened, and the output file is never opened or written.
C3_FailedSearchAborts ==
  /\ [](SearchFailed =>
          /\ pc = "aborted"
          /\ error = "RuntimeError"
          /\ rows = <<>>
          /\ ~output.opened
          /\ output.lines = <<>>)
  /\ [][SearchFailed => (requests' = requests /\ hits' = hits)]_vars

\* the failure arrives on a later page, with records already accumulated
C3_Witness ==
  /\ SearchFailed
  /\ "SUCCESS" \notin DOMAIN resp.payload
  /\ Len(requests) = 2
  /\ hits # <<>>
  /\ pc = "aborted"

\* C4: after a successfully processed page the loop exits exactly when
\* offset >= reported total or the page was empty; an empty page below the
\* reported total stops the loop without raising and without another request,
\* returning the records accumulated so far, fewer than the total.
C4_ExitExactlyOnTotalOrEmptyPage ==
  [][/\ (pc = "fetch" /\ pc' \in {"fetch", "flatten"}) =>
          /\ (pc' = "flatten") <=> (start' >= total' \/ batch' = <<>>)
          /\ (batch' = <<>> /\ start' < total') =>
                /\ pc' = "flatten"
                /\ error' = "none"
                /\ hits' = hits
                /\ Len(hits') < total'
     /\ FetchReturned => requests' = requests]_vars

\* an empty page arrives after a non-empty one, below the reported total
C4_Witness ==
  /\ pc = "flatten"
  /\ batch = <<>>
  /\ start < total
  /\ hits # <<>>
  /\ error = "none"

\* C9: when the keyword is empty the run terminates with a fatal error before
\* the session-priming request, before any search request and before any
\* output file is opened.
C9_EmptyKeywordBeforeNetwork ==
  keyword = Str(<<>>) =>
    /\ pc = "aborted"
    /\ error = "SystemExit"
    /\ ~session.created
    /\ session.primed = 0
    /\ requests = <<>>
    /\ ~output.opened

\* --keyword "" given and only whitespace typed at the prompt
C9_Witness ==
  /\ pc = "aborted"
  /\ error = "SystemExit"
  /\ args # None_
  /\ args.keyword = Str(<<>>)
  /\ keyword = Str(<<>>)

\* C10: the offset sent with each search request equals the number of records
\* accumulated from all earlier pages (0 for the first request), and the
\* accumulated sequence is the concatenation of the received pages in order.
C10_OffsetIsAccumulatedCount ==
  /\ hits = ConcatAll(pages)
  /\ Len(pages) <= Len(requests)
  /\ \A i \in 1..Len(requests) :
       requests[i].start = Len(ConcatAll(SubSeq(pages, 1, i - 1)))
  /\ pc = "fetch" => start = Len(hits)

\* a page shorter than the configured page size, followed by a second request
C10_Witness ==
  /\ Len(requests) >= 2
  /\ pages # <<>>
  /\ pages[1] # <<>>
  /\ Len(pages[1]) < args.page_size
  /\ requests[2].start = Len(pages[1])


----------------------------------------------------------------------------
(* SpecStrip: strip_randomstring on every string of StripInputs *)

InitStrip ==
  /\ pc = "strip_call"
  /\ arg \in StripInputs
  /\ ret = <<>>
  /\ server = NoServer
  /\ InitPipe

CallStrip ==
  /\ pc = "strip_call"
  /\ ret' = strip_randomstring(arg)
  /\ pc' = "strip_ret"
  /\ UNCHANGED <<arg, loop, pipe>>

NextStrip == CallStrip

SpecStrip == InitStrip /\ [][NextStrip]_vars

----------------------------------------------------------------------------
(* SpecRow: hit_to_row on every hit of RowInputs *)

InitRow ==
  /\ pc = "row_call"
  /\ arg \in RowInputs
  /\ ret = None_
  /\ server = NoServer
  /\ InitPipe

CallHitToRow ==
  /\ pc = "row_call"
  /\ ret' = hit_to_row(arg)
  /\ pc' = "row_ret"
  /\ UNCHANGED <<arg, loop, pipe>>

NextRow == CallHitToRow

SpecRow == InitRow /\ [][NextRow]_vars

----------------------------------------------------------------------------
(* Claims about the pure functions *)

NoOuterWhitespace(s) ==
  s = <<>> \/ (Head(s) \notin Whitespace /\ s[Len(s)] \notin Whitespace)

\* C5: for every input string, the output of strip_randomstring contains no
\* occurrence of "randomstring" and has no leading or trailing whitespace.
C5_StripLeavesNoMarker ==
  pc = "strip_ret" =>
    /\ ~Contains(ret, randomstring)
    /\ NoOuterWhitespace(ret)

\* the fields mapping of the hit under test, when it is a mapping
HasFields == "fields" \in DOMAIN arg /\ arg["fields"].t = "dict"
ArgFields == arg["fields"].v
Field(k) == Get(ArgFields, k, Absent)

\* the cleaned booth entries that are non-empty AFTER cleanup, in order
RECURSIVE Survivors(_)
Survivors(l) ==
  IF l = <<>> THEN <<>>
  ELSE LET b == Head(l)
           cleaned == IF b.t = "str" THEN strip_randomstring(b.v) ELSE <<>>
       IN  (IF cleaned # <<>> THEN <<cleaned>> ELSE <<>>) \o Survivors(Tail(l))

\* C6: for every booth-display list, 'booths' is the "; "-join of exactly the
\* entries that are non-empty after removing "randomstring" and trimming, in
\* order; an entry that becomes empty only after cleanup adds no separator.
C6_BoothsJoinSurvivors ==
  (pc = "row_ret" /\ HasFields /\ Field("boothsdisplay_la").t = "list") =>
    /\ ~ret.raised
    /\ ret.value.booths = Str(Join(Survivors(Field("boothsdisplay_la").v), Separator))

SourceOf ==
  [exhibitor_id |-> "exhid_l", name |-> "exhname_t", description |-> "exhdesc_t",
   seeking_funding |-> "seekfunding_t", funding_amount |-> "fundingamount_t",
   investment_stage |-> "investmentstage_l", revenue |-> "revenue_t",
   logo_file |-> "exhlogo_t", featured |-> "exhfeatured_t"]

\* C7: for every record (fields absent, present or null; the 'fields' mapping
\* itself absent or null) hit_to_row never raises and returns exactly the
\* twelve keys, every value a string, an absent source field giving "".
C7_RowNeverRaisesAllStrings ==
  pc = "row_ret" =>
    /\ ~ret.raised
    /\ DOMAIN ret.value = {fieldnames[i] : i \in 1..Len(fieldnames)}
    /\ \A k \in DOMAIN ret.value : ret.value[k].t = "str"
    /\ HasFields =>
         \A k \in DOMAIN SourceOf :
           Field(SourceOf[k]) = Absent => ret.value[k] = Str(<<>>)

AllStr(l) == \A i \in 1..Len(l) : l[i].t = "str"
JoinStrs(l) == Join([i \in 1..Len(l) |-> l[i].v], Separator)
NonEmptyList(x) == x.t = "list" /\ Len(x.v) > 0

\* C8 as stated: 'tags' joins exhtags_la whenever that field is present as a
\* list, even an empty one; 'tags' is used only when exhtags_la is absent; with
\* both absent the result is empty.
C8_PrimaryWheneverPresent ==
  (pc = "row_ret" /\ HasFields /\ ~ret.raised) =>
    /\ Field("exhtags_la").t = "list" =>
         ret.value.tags = Str(JoinStrs(Field("exhtags_la").v))
    /\ (Field("exhtags_la") = Absent /\ Field("tags").t = "list") =>
         ret.value.tags = Str(JoinStrs(Field("tags").v))
    /\ (Field("exhtags_la") = Absent /\ Field("tags") = Absent) =>
         ret.value.tags = Str(<<>>)

ChosenTags ==
  IF NonEmptyList(Field("exhtags_la")) THEN Field("exhtags_la").v
  ELSE IF NonEmptyList(Field("tags")) THEN Field("tags").v
  ELSE <<>>

\* C8 amended: 'tags' is the "; "-join of exhtags_la when that field is a
\* non-empty list, otherwise of 'tags' when that is a non-empty list, otherwise
\* the empty string (an absent, null or empty list falls through to the next).
C8_FirstNonEmptyTagList ==
  (pc = "row_ret" /\ HasFields /\ ~ret.raised) =>
    /\ AllStr(ChosenTags)
    /\ ret.value.tags = Str(JoinStrs(ChosenTags))

\* exhtags_la present but empty, 'tags' non-empty: the alternate list is used
C8_Witness ==
  /\ pc = "row_ret" /\ HasFields /\ ~ret.raised
  /\ Field("exhtags_la") = List(<<>>)
  /\ Field("tags") = List(<<Str(<<"x">>), Str(<<"y">>)>>)
  /\ ret.value.tags = Str(<<"x", ";", " ", "y">>)

====
